---- MODULE Spec2Model ----
(***************************************************************************)
(* Model of src/compdb.js: the per-folder CompDBRunner (watcher handlers   *)
(* and the compare-and-publish #updateCompDB), the WorkspaceManager that   *)
(* owns the runners, the CMakeManager that listens to the build-system     *)
(* integration, and the environment they talk to (file system,             *)
(* cmake.buildDirectory, the compdb tool, clangd.restart, the CMake API).  *)
(*                                                                         *)
(* Every `await` of the source is a suspension point: a handler is a task  *)
(* record whose pc names the operation it is waiting for, and one action   *)
(* per awaited operation performs the operation and runs the continuation  *)
(* up to the next await.                                                   *)
(***************************************************************************)
EXTENDS Naturals, Sequences, FiniteSets

\* ---------------------------------------------------------------- bounds
MaxTasks == 2        \* handler invocations in flight or not yet settled
MaxCandidates == 1   \* create events delivered to one runner
MaxRunners == 3      \* CompDBRunner objects ever constructed
MaxListeners == 2    \* onReconfigured subscriptions the manager makes on one project
MaxReconfiguring == 2  \* #handleReconfigured invocations waiting for binaryDir
MaxFailures == 1     \* awaited operations (commands, file operations) that fail

\* ---------------------------------------------------------------- values
Folders == {"projA", "projB"}
BuildNames == {"build"}
FileName == "compile_commands.json"

\* A text is the sequence of its characters. The values that stand where a text can
\* stand and are none are one-element sequences whose element is no character.
\* JS undefined; JSON.parse(undefined) parses the string "undefined".
Undefined == <<"undefined">>
\* The state of a file that does not exist.
Absent == <<"ENOENT">>
\* History: no text noted yet.
NoText == <<"none">>
\* The text of a file that was opened for writing and has received nothing.
Empty == <<>>
\* cmake.buildDirectory when no build directory is configured (null).
NoDirectory == <<>>

\* Texts the compdb tool can print: two spellings of one JSON value, another
\* JSON value, and a text that is not JSON.
CompactOne == <<"[", "1", "]">>
SpacedOne == <<"[", " ", "1", " ", "]">>
CompactTwo == <<"[", "2", "]">>
WellFormedTexts == {CompactOne, SpacedOne, CompactTwo}
Malformed == <<"o", "o", "p", "s">>
Texts == WellFormedTexts \cup {Malformed}
\* The failure of PythonShell.run (tool missing, non-zero exit).
ToolFailure == <<"tool-failure">>

\* The projects of the build-system integration: one per folder, named as its folder.
Projects == Folders
\* projectController.activeProject when no project is active (undefined).
NoProject == "undefined-project"

\* ----------------------------------------------------------------- paths
\* A path is the sequence of its segments.
FolderPath(f) == <<f>>
BuildDir(f, n) == <<f, n>>
BuildDirs == {BuildDir(f, n) : f \in Folders, n \in BuildNames}

\* posixPath.join(dir, name)
Join(dir, name) == Append(dir, name)

\* posixPath.dirname(path)
Dirname(path) == IF Len(path) = 0 THEN path ELSE SubSeq(path, 1, Len(path) - 1)

\* dirnameUri(uri): the uri with its path replaced by the path's dirname.
dirnameUri(uri) == [uri EXCEPT !.path = Dirname(uri.path)]

\* uri.fsPath of a file uri on a posix host: the path itself.
fsPath(uri) == uri.path

\* ------------------------------------------------------------------ JSON
\* The characters a file of the model can hold are those of the tool's texts, so the
\* JSON values it can hold are the arrays of at most one number written in the digits
\* 1 and 2, with blanks around the tokens.
Digits == {"1", "2"}

RECURSIVE TrimLeft(_)
TrimLeft(text) ==
    IF text # <<>> /\ Head(text) = " " THEN TrimLeft(Tail(text)) ELSE text

RECURSIVE TrimRight(_)
TrimRight(text) ==
    IF text # <<>> /\ text[Len(text)] = " "
    THEN TrimRight(SubSeq(text, 1, Len(text) - 1))
    ELSE text

Trim(text) == TrimLeft(TrimRight(text))

\* The number a sequence of digits denotes.
RECURSIVE NumberOf(_)
NumberOf(digits) ==
    IF digits = <<>> THEN 0
    ELSE 10 * NumberOf(SubSeq(digits, 1, Len(digits) - 1))
             + (IF digits[Len(digits)] = "1" THEN 1 ELSE 2)

\* JSON.parse: the parsed value (an array as the sequence of its elements), or a
\* SyntaxError.
JSONParse(text) ==
    LET whole == Trim(text)
        bracketed == /\ Len(whole) >= 2
                     /\ whole[1] = "["
                     /\ whole[Len(whole)] = "]"
        inner == Trim(SubSeq(whole, 2, Len(whole) - 1))
    IN IF bracketed /\ inner = <<>>
       THEN [ok |-> TRUE, value |-> <<>>]
       ELSE IF bracketed /\ \A k \in 1..Len(inner) : inner[k] \in Digits
            THEN [ok |-> TRUE, value |-> <<NumberOf(inner)>>]
            ELSE [ok |-> FALSE, value |-> <<>>]

\* Mutants of the comparison: no two values are ever equal, any two always are.
isEqual_Never(a, b) == FALSE
isEqual_Always(a, b) == TRUE

\* _.isEqual on two parsed values.
isEqual(a, b) == a = b

\* ----------------------------------------------------------------- state
VARIABLES
    workspaceFolders,      \* vscode.workspace.workspaceFolders, in order
    runners,               \* every CompDBRunner constructed; its index is its identity
    watchers,              \* runners whose file-system watcher is subscribed
    compDBRunners,         \* WorkspaceManager.#compDBRunners (runner identities)
    activeBuildDirectory,  \* what cmake.buildDirectory answers right now
    artifact,              \* <folder>/compile_commands.json: its text, or Absent
    tasks,                 \* handler invocations suspended at an await
    finished,              \* history: the invocation that ended in the last step
    lastAlone,             \* history: the last reconciliation of a folder, if it ran alone
    lastNormalized,        \* history: last well-formed tool output per build directory, parsed
    lastRun,               \* history: the WorkspaceManager.runCompDB call of the last step
    activeProject,         \* api.manager.projectController.activeProject
    cmakeManager,          \* how far activate() got with new CMakeManager(api)
    onReconfigured,        \* per project: the listeners the manager subscribed on it
    reconfiguring,         \* #handleReconfigured invocations suspended at binaryDir
    reconfigured,          \* history: the #handleReconfigured invocation of the last step
    failures               \* how many awaited operations the environment has failed

cmakeVars == <<activeProject, cmakeManager, onReconfigured, reconfiguring, reconfigured>>

vars == <<workspaceFolders, runners, watchers, compDBRunners, activeBuildDirectory,
          artifact, tasks, finished, lastAlone, lastNormalized, lastRun, activeProject,
          cmakeManager, onReconfigured, reconfiguring, reconfigured, failures>>

\* ------------------------------------------------------------- CompDBRunner
\* new CompDBRunner(workspaceFolder): fields as the constructor leaves them.
NewRunner(workspaceFolder) ==
    [workspaceFolder |-> workspaceFolder, compileCommandsSourceCandidates |-> <<>>]

\* The folder whose artifact a task reconciles: its runner's workspace folder.
FolderOf(t) == runners[t.runner].workspaceFolder

\* The candidates are compared by object identity (!==) in the source, and only with
\* the Uri object an event delivers to their own runner. So an event of runner r
\* carries the identity of its Uri object among r's candidates: a new object each time.
CandidateObjects(r) ==
    {runners[r].compileCommandsSourceCandidates[i].obj :
        i \in 1..Len(runners[r].compileCommandsSourceCandidates)}
FreshObject(r) ==
    CHOOSE o \in 1..(Cardinality(CandidateObjects(r)) + 1) : o \notin CandidateObjects(r)
EventUri(r, path) == [obj |-> FreshObject(r), scheme |-> "file", path |-> path]

\* A slot of tasks that holds no invocation.
Idle == [pc |-> "idle"]
Slots == 1..MaxTasks
Busy(ts) == {i \in Slots : ts[i].pc # "idle"}
NoRun == [valid |-> FALSE, text |-> Undefined, writes |-> 0]

\* A handler invocation that has just been entered on the uri's scheme and path.
NewTask(r, uri, pc) ==
    [runner |-> r, sourceUri |-> [scheme |-> uri.scheme, path |-> uri.path], pc |-> pc,
     newCompilerCommandsText |-> Undefined, targetAlreadyExists |-> FALSE,
     outcome |-> "pending",
     \* history of what this invocation did and saw
     dropped |-> \A k \in 1..Len(compDBRunners) : compDBRunners[k] # r,
     matched |-> "pending", toolOutput |-> NoText, invocations |-> 0, reads |-> 0,
     probes |-> 0, writes |-> 0, restarts |-> 0, readResult |-> "none",
     probeResult |-> "none", existedAtWrite |-> FALSE, solo |-> TRUE, prev |-> NoRun,
     youngers |-> {}, overtakenBy |-> NoText,
     lookupResult |-> "none", writeResult |-> "none", restartResult |-> "none"]

InFlight(ts, f) == {i \in Busy(ts) : FolderOf(ts[i]) = f}

\* Entering task t beside the tasks ts, in the first idle slot: it runs alone iff no
\* invocation of its folder is in flight. The invocations in flight stop being alone,
\* and note the slot of the invocation that was triggered after them.
Enter(ts, t) ==
    LET f == FolderOf(t)
        alone == InFlight(ts, f) = {}
        slot == CHOOSE i \in Slots \ Busy(ts) : \A j \in Slots \ Busy(ts) : i <= j
        Disturbed(u) ==
            IF u.pc = "idle" THEN u
            ELSE IF FolderOf(u) # f THEN u
            ELSE [u EXCEPT !.solo = FALSE, !.youngers = @ \cup {slot}]
    IN [i \in Slots |->
           IF i = slot
           THEN [t EXCEPT !.solo = alone]
           ELSE Disturbed(ts[i])]

\* The promise of an async function settles. An invocation that ran alone followed
\* the folder's last reconciliation, which is noted in prev.
Finish(t, outcome) ==
    [t EXCEPT !.pc = "done", !.outcome = outcome,
              !.prev = IF t.solo THEN lastAlone[FolderOf(t)] ELSE NoRun]

\* What a folder remembers of a reconciliation that ended: its text if it ran alone
\* and was fulfilled, nothing otherwise. A handler that the filter or a rejected lookup
\* ended is no reconciliation and leaves the memory as it is.
Remembered(t) ==
    IF t.invocations = 0 THEN lastAlone
    ELSE [lastAlone EXCEPT ![FolderOf(t)] =
             IF t.solo /\ t.outcome = "fulfilled"
             THEN [valid |-> TRUE, text |-> t.newCompilerCommandsText, writes |-> t.writes]
             ELSE NoRun]

\* Among the tasks ts, the task in slot i goes on as next: it stays suspended, or it
\* has ended and leaves its slot.
Resume(ts, i, next) ==
    IF next.pc = "done"
    THEN /\ tasks' = [ts EXCEPT ![i] = Idle]
         /\ finished' = next
         /\ lastAlone' = Remembered(next)
    ELSE /\ tasks' = [ts EXCEPT ![i] = next]
         /\ finished' = Idle
         /\ lastAlone' = lastAlone

Continue(i, next) == Resume(tasks, i, next)

\* History: the task in slot i writes text. Every invocation of the same folder that is
\* in flight and was triggered before it notes the text that overtook it.
Overtake(ts, i, text) ==
    [k \in Slots |->
        IF /\ k # i
           /\ ts[k].pc # "idle"
           /\ i \in ts[k].youngers
           /\ FolderOf(ts[k]) = FolderOf(ts[i])
        THEN [ts[k] EXCEPT !.overtakenBy = text]
        ELSE ts[k]]

\* The environment fails an awaited operation (fault) or lets it succeed; it fails at
\* most MaxFailures operations.
Fails(fault) ==
    /\ fault => failures < MaxFailures
    /\ failures' = IF fault THEN failures + 1 ELSE failures

\* Mutant of the filter: the comparison inverted.
PassesFilter_Inverted(uri, cmakeBuildDirectory) ==
    fsPath(dirnameUri(uri)) # cmakeBuildDirectory

\* Lines 36 and 44: the handler goes on iff the uri's directory is the build directory.
PassesFilter(uri, cmakeBuildDirectory) == fsPath(dirnameUri(uri)) = cmakeBuildDirectory

\* Mutant of run(): a failed tool answers a default text instead of undefined.
RunResult_Default(response) == IF response = ToolFailure THEN CompactOne ELSE response

\* Lines 65-72, run(): the tool's joined response, or undefined when the call throws.
RunResult(response) == IF response = ToolFailure THEN Undefined ELSE response

\* Mutants of the restart decision: always, never, and the test inverted.
ShouldRestart_Always(targetAlreadyExists) == TRUE
ShouldRestart_Never(targetAlreadyExists) == FALSE
ShouldRestart_Inverted(targetAlreadyExists) == targetAlreadyExists

\* Line 108: restart clangd iff the probe did not find the target.
ShouldRestart(targetAlreadyExists) == ~targetAlreadyExists

\* Lines 64-80 up to the await of PythonShell.run, entered from #updateCompDB (line 83):
\* a file uri starts the tool; any other scheme returns undefined, which JSON.parse
\* (line 84) rejects.
EnterUpdateCompDB(t) ==
    IF t.sourceUri.scheme = "file"
    THEN [t EXCEPT !.pc = "norm", !.invocations = @ + 1]
    ELSE Finish(t, "rejected")

\* --------------------------------------------------------------------- Init
NoCall == [called |-> FALSE, excluded |-> "", buildDirectory |-> <<>>, forwarded |-> {},
           passed |-> <<>>, started |-> 0, outcome |-> "none"]

\* What the folder's artifact can hold before the extension first runs.
InitialArtifacts == {Absent, CompactTwo, Malformed}

\* activate(): new WorkspaceManager() maps the open folders to runners (lines 116-119),
\* and each runner's constructor subscribes its watcher (lines 23-26, 54-62).
\* open: the folder lists the workspace can start with; dirs: what cmake.buildDirectory
\* can answer; present: the folders that can hold an artifact from an earlier session.
Activated(open, dirs, present) ==
    /\ workspaceFolders \in open
    /\ runners = [i \in 1..Len(workspaceFolders) |-> NewRunner(workspaceFolders[i])]
    /\ watchers = 1..Len(workspaceFolders)
    /\ compDBRunners = [i \in 1..Len(workspaceFolders) |-> i]
    /\ activeBuildDirectory \in dirs
    /\ artifact \in [Folders -> InitialArtifacts]
    /\ \A f \in Folders \ present : artifact[f] = Absent
    /\ tasks = [i \in Slots |-> Idle]
    /\ finished = Idle
    /\ lastAlone = [f \in Folders |-> NoRun]
    /\ lastNormalized = [d \in BuildDirs |-> JSONParse(Undefined)]
    /\ lastRun = NoCall
    /\ failures = 0

NoReconfigure == [called |-> FALSE, signal |-> NoProject, wasActive |-> NoProject,
                  copy |-> 0, outcome |-> "none"]

\* activate() between new WorkspaceManager() and new CMakeManager(api) (lines 174-176):
\* no manager yet, no listener of its on any project. actives: the projects the
\* integration can report as the active one.
AwaitingApi(actives) ==
    /\ activeProject \in actives
    /\ cmakeManager = "none"
    /\ onReconfigured = [p \in Projects |-> 0]
    /\ reconfiguring = <<>>
    /\ reconfigured = NoReconfigure

\* activate() after new CMakeManager(api) (lines 147-154) with project active: the
\* constructor has subscribed one listener on it and listens to the integration.
Listening(project) ==
    /\ activeProject = project
    /\ cmakeManager = "listening"
    /\ onReconfigured = [p \in Projects |-> IF p = project THEN 1 ELSE 0]
    /\ reconfiguring = <<>>
    /\ reconfigured = NoReconfigure

\* ----------------------------------------------------------- watcher events
\* The watcher of runner r watches <folder>/*/compile_commands.json.
WatchedPath(r, n) == Join(BuildDir(runners[r].workspaceFolder, n), FileName)

\* Lines 32-35: #handleCompileCommandsSourceCreated up to its first await.
WatcherDidCreate(r, n) ==
    /\ r \in watchers
    /\ Busy(tasks) # Slots
    /\ Len(runners[r].compileCommandsSourceCandidates) < MaxCandidates
    /\ LET uri == EventUri(r, WatchedPath(r, n))
       IN /\ runners' = [runners EXCEPT ![r].compileCommandsSourceCandidates =
                                            Append(@, [obj |-> uri.obj, path |-> uri.path])]
          /\ tasks' = Enter(tasks, NewTask(r, uri, "lookup"))
    /\ finished' = Idle
    /\ lastRun' = NoCall
    /\ UNCHANGED failures
    /\ UNCHANGED cmakeVars
    /\ UNCHANGED <<workspaceFolders, watchers, compDBRunners, activeBuildDirectory,
                   artifact, lastAlone, lastNormalized>>

\* Lines 42-43: #handleCompileCommandsSourceChanged up to its first await.
WatcherDidChange(r, n) ==
    /\ r \in watchers
    /\ Busy(tasks) # Slots
    /\ tasks' = Enter(tasks, NewTask(r, EventUri(r, WatchedPath(r, n)), "lookup"))
    /\ finished' = Idle
    /\ lastRun' = NoCall
    /\ UNCHANGED failures
    /\ UNCHANGED cmakeVars
    /\ UNCHANGED <<workspaceFolders, runners, watchers, compDBRunners,
                   activeBuildDirectory, artifact, lastAlone, lastNormalized>>

\* Mutant of the delete handler: it also removes the folder's artifact.
WatcherDidDelete_Unlinks(r, n) ==
    /\ r \in watchers
    /\ artifact' = [artifact EXCEPT ![runners[r].workspaceFolder] = Absent]
    /\ finished' = Idle
    /\ lastRun' = NoCall
    /\ UNCHANGED failures
    /\ UNCHANGED cmakeVars
    /\ UNCHANGED <<workspaceFolders, runners, watchers, compDBRunners,
                   activeBuildDirectory, tasks, lastAlone, lastNormalized>>

\* Lines 50-52: #handleCompileCommandsSourceDeleted keeps the candidates that are not
\* the delivered object.
WatcherDidDelete(r, n) ==
    /\ r \in watchers
    /\ LET uri == EventUri(r, WatchedPath(r, n))
       IN runners' = [runners EXCEPT ![r].compileCommandsSourceCandidates =
                          SelectSeq(@, LAMBDA currentUri : currentUri.obj # uri.obj)]
    /\ finished' = Idle
    /\ lastRun' = NoCall
    /\ UNCHANGED failures
    /\ UNCHANGED cmakeVars
    /\ UNCHANGED <<workspaceFolders, watchers, compDBRunners, activeBuildDirectory,
                   artifact, tasks, lastAlone, lastNormalized>>

\* ------------------------------------------------------------ reconciliation
\* Lines 35-39 / 43-47: the cmake.buildDirectory command settles. The await has no
\* try: a rejection (the command is not registered, or it throws) rejects the handler.
\* When it answers, a uri outside the build directory ends the handler and any other
\* enters #updateCompDB.
LookupReturns(i, reject) ==
    /\ tasks[i].pc = "lookup"
    /\ LET t == tasks[i]
           cmakeBuildDirectory == activeBuildDirectory
           seen == [t EXCEPT !.lookupResult = "answered",
                             !.matched =
                                 IF Dirname(t.sourceUri.path) = cmakeBuildDirectory
                                 THEN "yes" ELSE "no"]
       IN Continue(i, IF reject
                      THEN Finish([t EXCEPT !.lookupResult = "rejected"], "rejected")
                      ELSE IF PassesFilter(t.sourceUri, cmakeBuildDirectory)
                           THEN EnterUpdateCompDB(seen)
                           ELSE Finish(seen, "fulfilled"))
    /\ lastRun' = NoCall
    /\ Fails(reject)
    /\ UNCHANGED cmakeVars
    /\ UNCHANGED <<workspaceFolders, runners, watchers, compDBRunners,
                   activeBuildDirectory, artifact, lastNormalized>>

\* Lines 67-75 and 83-88: PythonShell.run settles; the text is parsed, and a
\* SyntaxError (of undefined, or of a malformed text) rejects #updateCompDB.
NormalizerReturns(i, response) ==
    /\ tasks[i].pc = "norm"
    /\ LET t == tasks[i]
           newCompilerCommandsText == RunResult(response)
           newCompilerCommandsJSON == JSONParse(newCompilerCommandsText)
           got == [t EXCEPT !.newCompilerCommandsText = newCompilerCommandsText,
                            !.toolOutput = response]
       IN /\ Continue(i, IF newCompilerCommandsJSON.ok
                         THEN [got EXCEPT !.pc = "read"]
                         ELSE Finish(got, "rejected"))
          /\ lastNormalized' =
                 IF response \in WellFormedTexts
                 THEN [lastNormalized EXCEPT ![Dirname(t.sourceUri.path)] =
                                                  JSONParse(response)]
                 ELSE lastNormalized
    /\ lastRun' = NoCall
    /\ UNCHANGED failures
    /\ UNCHANGED cmakeVars
    /\ UNCHANGED <<workspaceFolders, runners, watchers, compDBRunners,
                   activeBuildDirectory, artifact>>

\* The target of a task: <workspaceFolder.uri>/compile_commands.json (line 86).
TargetOf(t) == FolderOf(t)

\* Lines 88-93: readFile settles. A missing file or a failed read throws, and so does
\* text that is not JSON; the catch swallows all three. Equal content ends the
\* reconciliation; anything else goes on to the existence probe.
\* (The extension host hands readFile's bytes over as a Buffer, whose conversion to a
\* string by JSON.parse is the file's UTF-8 text.)
ReadFileReturns(i, ioFault) ==
    /\ tasks[i].pc = "read"
    /\ LET t == tasks[i]
           current == artifact[TargetOf(t)]
           threw == ioFault \/ current = Absent
           currentContentJson == JSONParse(current)
           newCompilerCommandsJSON == JSONParse(t.newCompilerCommandsText)
           same == /\ ~threw
                   /\ currentContentJson.ok
                   /\ isEqual(currentContentJson.value, newCompilerCommandsJSON.value)
           saw == CASE current = Absent -> "absent"
                    [] ioFault -> "fault"
                    [] ~currentContentJson.ok -> "unparsable"
                    [] currentContentJson.value = newCompilerCommandsJSON.value -> "equal"
                    [] OTHER -> "differs"
           read == [t EXCEPT !.reads = @ + 1, !.readResult = saw]
       IN Continue(i, IF same THEN Finish(read, "fulfilled")
                      ELSE [read EXCEPT !.pc = "stat"])
    /\ lastRun' = NoCall
    /\ Fails(ioFault)
    /\ UNCHANGED cmakeVars
    /\ UNCHANGED <<workspaceFolders, runners, watchers, compDBRunners,
                   activeBuildDirectory, artifact, lastNormalized>>

\* Lines 97-106: stat settles; a throw (missing file, failed probe) means "does not
\* exist". writeFile is then called; it has not touched the target yet.
StatReturns(i, ioFault) ==
    /\ tasks[i].pc = "stat"
    /\ LET t == tasks[i]
           current == artifact[TargetOf(t)]
           targetAlreadyExists == ~(ioFault \/ current = Absent)
           saw == CASE current = Absent -> "absent"
                    [] ioFault -> "fault"
                    [] OTHER -> "exists"
       IN Continue(i, [t EXCEPT !.pc = "write", !.probes = @ + 1, !.probeResult = saw,
                                !.targetAlreadyExists = targetAlreadyExists])
    /\ lastRun' = NoCall
    /\ Fails(ioFault)
    /\ UNCHANGED cmakeVars
    /\ UNCHANGED <<workspaceFolders, runners, watchers, compDBRunners,
                   activeBuildDirectory, artifact, lastNormalized>>

\* Line 106, writeFile is not atomic: it opens the target, which creates it or cuts it
\* to nothing, then writes the text from the start of the file, then closes it and
\* settles. Overlay is the content of a file that held current after data has been
\* written at its start: the data, and what current had beyond the data's length
\* (which another write can have put there since this one opened the file).
Overlay(current, data) == data \o SubSeq(current, Len(data) + 1, Len(current))

\* Line 106: what a writeFile of text that fails after opening the target (disk full,
\* file size limit, I/O error) leaves in a target that held current: some part of the
\* text, from nothing to all of it, written at the start.
FailedWriteLeaves(current, text) ==
    {Overlay(current, SubSeq(text, 1, n)) : n \in 0..Len(text)}

\* Line 106, first step of writeFile: the target is opened for writing. A failure (the
\* target is a directory, the folder is read-only) leaves the target as it was and
\* rejects the handler, the await having no try. Otherwise the target exists and is
\* empty from now on, while the write is still pending.
WriteFileOpens(i, ioFault) ==
    /\ tasks[i].pc = "write"
    /\ LET t == tasks[i]
           f == TargetOf(t)
       IN IF ioFault
          THEN /\ artifact' = artifact
               /\ Continue(i, Finish([t EXCEPT !.writeResult = "fault"], "rejected"))
          ELSE /\ artifact' = [artifact EXCEPT ![f] = Empty]
               /\ Continue(i, [t EXCEPT !.pc = "writing",
                                        !.existedAtWrite = artifact[f] # Absent])
    /\ lastRun' = NoCall
    /\ Fails(ioFault)
    /\ UNCHANGED cmakeVars
    /\ UNCHANGED <<workspaceFolders, runners, watchers, compDBRunners,
                   activeBuildDirectory, lastNormalized>>

\* Lines 106-109: the text is written into the opened target and writeFile settles.
\* The await has no try: a write that fails rejects the handler and leaves part of
\* the text. A write that succeeds has put the text at the start of the file, and
\* clangd.restart is invoked iff the probe had not found the target.
WriteFileReturns(i, ioFault) ==
    /\ tasks[i].pc = "writing"
    /\ LET t == tasks[i]
           f == TargetOf(t)
           wrote == [t EXCEPT !.writes = @ + 1, !.writeResult = "written"]
       IN IF ioFault
          THEN /\ \E left \in FailedWriteLeaves(artifact[f], t.newCompilerCommandsText) :
                      artifact' = [artifact EXCEPT ![f] = left]
               /\ Continue(i, Finish([t EXCEPT !.writeResult = "fault"], "rejected"))
          ELSE /\ artifact' = [artifact EXCEPT
                                  ![f] = Overlay(artifact[f], t.newCompilerCommandsText)]
               /\ Resume(Overtake(tasks, i, t.newCompilerCommandsText), i,
                         IF ShouldRestart(t.targetAlreadyExists)
                         THEN [wrote EXCEPT !.pc = "restart", !.restarts = @ + 1]
                         ELSE Finish(wrote, "fulfilled"))
    /\ lastRun' = NoCall
    /\ Fails(ioFault)
    /\ UNCHANGED cmakeVars
    /\ UNCHANGED <<workspaceFolders, runners, watchers, compDBRunners,
                   activeBuildDirectory, lastNormalized>>

\* Line 109: the clangd.restart command settles and #updateCompDB returns. The await
\* has no try: a rejection (no clangd extension registers the command) rejects the
\* handler, after the write.
RestartReturns(i, reject) ==
    /\ tasks[i].pc = "restart"
    /\ Continue(i, IF reject
                   THEN Finish([tasks[i] EXCEPT !.restartResult = "rejected"], "rejected")
                   ELSE Finish([tasks[i] EXCEPT !.restartResult = "done"], "fulfilled"))
    /\ lastRun' = NoCall
    /\ Fails(reject)
    /\ UNCHANGED cmakeVars
    /\ UNCHANGED <<workspaceFolders, runners, watchers, compDBRunners,
                   activeBuildDirectory, artifact, lastNormalized>>

\* --------------------------------------------------------------- environment
\* The user selects another build configuration, kit or project.
ActiveBuildDirectoryChanges(d) ==
    /\ d # activeBuildDirectory
    /\ activeBuildDirectory' = d
    /\ finished' = Idle
    /\ lastRun' = NoCall
    /\ UNCHANGED failures
    /\ UNCHANGED cmakeVars
    /\ UNCHANGED <<workspaceFolders, runners, watchers, compDBRunners, artifact, tasks,
                   lastAlone, lastNormalized>>

\* ---------------------------------------------------------- WorkspaceManager
\* The sequences without repetition over a set: the folder lists an event can carry.
Lists(S) ==
    {q \in UNION {[1..n -> S] : n \in 0..Cardinality(S)} :
        \A i, j \in 1..Len(q) : i # j => q[i] # q[j]}

Range(q) == {q[i] : i \in 1..Len(q)}

\* Mutant of the removal: no runner leaves the collection.
DropRemoved_None(workers, removed) == workers

\* Lines 133-135: one filter of #compDBRunners per removed folder.
RECURSIVE DropRemoved(_, _)
DropRemoved(workers, removed) ==
    IF removed = <<>> THEN workers
    ELSE DropRemoved(
             SelectSeq(workers, LAMBDA worker : runners[worker].workspaceFolder # Head(removed)),
             Tail(removed))

\* Lines 132-139: #handleDidChangeWorkspaceFolders. The runners of the removed folders
\* leave the collection; a new runner, with a new watcher, is pushed for each added one.
DidChangeWorkspaceFolders(removed, added) ==
    /\ Len(removed) + Len(added) > 0
    /\ Range(removed) \subseteq Range(workspaceFolders)
    /\ Range(added) \cap Range(workspaceFolders) = {}
    /\ Len(runners) + Len(added) <= MaxRunners
    /\ LET created == [i \in 1..Len(added) |-> Len(runners) + i]
       IN /\ workspaceFolders' =
                 SelectSeq(workspaceFolders, LAMBDA f : f \notin Range(removed)) \o added
          /\ runners' = runners \o [i \in 1..Len(added) |-> NewRunner(added[i])]
          /\ watchers' = watchers \cup Range(created)
          /\ compDBRunners' = DropRemoved(compDBRunners, removed) \o created
    /\ finished' = Idle
    /\ lastRun' = NoCall
    /\ UNCHANGED failures
    /\ UNCHANGED cmakeVars
    /\ UNCHANGED <<activeBuildDirectory, artifact, tasks, lastAlone, lastNormalized>>

\* Lines 28-30, CompDBRunner.runCompDB(buildDir) called with the arguments args:
\* posixPath.join throws a TypeError on an undefined buildDir, which rejects the call
\* before #updateCompDB is entered.
RunCompDBEnters(args) == Len(args) > 0

\* Lines 28-30 for the calls that pass a build directory: #updateCompDB is entered on
\* the file uri of <buildDir>/compile_commands.json.
RECURSIVE ForwardAll(_, _, _)
ForwardAll(ts, workers, args) ==
    IF workers = <<>> \/ ~RunCompDBEnters(args) THEN ts
    ELSE LET uri == [scheme |-> "file", path |-> Join(args[1], FileName)]
             t == [NewTask(Head(workers), uri, "norm") EXCEPT !.matched = "n/a"]
         IN ForwardAll(Enter(ts, EnterUpdateCompDB(t)), Tail(workers), args)

\* Line 128: the workers the call is forwarded to.
Forwarded(workers, workspaceFolder) ==
    SelectSeq(workers, LAMBDA worker : runners[worker].workspaceFolder # workspaceFolder)

\* Line 129: what forEach hands to Promise.all. forEach returns undefined.
ForEachReturn(workers) == [defined |-> FALSE, promises |-> workers]

\* Line 127: Promise.all rejects with a TypeError on a value that is not iterable.
PromiseAll(iterable) == IF iterable.defined THEN "pending" ELSE "rejected"

\* Lines 124-130: WorkspaceManager.runCompDB(workspaceFolder, buildDirectory).
\* Every selected worker's runCompDB is called with no argument.
ManagerRunCompDB(workspaceFolder, buildDirectory) ==
    /\ LET selected == Forwarded(compDBRunners, workspaceFolder)
           passed == <<>>
           enters == IF RunCompDBEnters(passed) THEN Len(selected) ELSE 0
       IN /\ Cardinality(Busy(tasks)) + enters <= MaxTasks
          /\ tasks' = ForwardAll(tasks, selected, passed)
          /\ lastRun' = [called |-> TRUE,
                         excluded |-> workspaceFolder,
                         buildDirectory |-> buildDirectory,
                         forwarded |-> Range(selected),
                         passed |-> passed,
                         started |-> enters,
                         outcome |-> PromiseAll(ForEachReturn(selected))]
    /\ finished' = Idle
    /\ UNCHANGED failures
    /\ UNCHANGED <<workspaceFolders, runners, watchers, compDBRunners,
                   activeBuildDirectory, artifact, lastAlone, lastNormalized>>

\* -------------------------------------------------------------- CMakeManager
\* The project's workspace folder and the directory its binaryDir resolves to.
WorkspaceFolderOf(project) == project
BinaryDirOf(project) == BuildDir(project, "build")

\* Lines 163-165, #handleActiveProjectChanged(project): project.onReconfigured(...)
\* subscribes a listener on a project and throws a TypeError on undefined.
Subscribes(project) == project # NoProject

\* Lines 147-154, new CMakeManager(api): the handler is called on the current active
\* project (line 152); if it throws, the constructor throws before line 153 subscribes
\* to api.onActiveProjectChanged.
ConstructCMakeManager ==
    /\ cmakeManager = "none"
    /\ IF Subscribes(activeProject)
       THEN /\ cmakeManager' = "listening"
            /\ onReconfigured' = [onReconfigured EXCEPT ![activeProject] = @ + 1]
       ELSE /\ cmakeManager' = "threw"
            /\ onReconfigured' = onReconfigured
    /\ reconfigured' = NoReconfigure
    /\ UNCHANGED <<activeProject, reconfiguring>>
    /\ UNCHANGED <<workspaceFolders, runners, watchers, compDBRunners,
                   activeBuildDirectory, artifact, tasks, finished, lastAlone,
                   lastNormalized, lastRun, failures>>

\* The integration makes q the active project (or none) and fires
\* onActiveProjectChanged; a listening manager runs lines 163-165 on q, which the
\* handler takes to be the project itself, as line 152 passes it. Every call adds a
\* listener; none is ever disposed.
ActiveProjectChanged(q) ==
    /\ q # activeProject
    /\ activeProject' = q
    /\ IF cmakeManager = "listening" /\ Subscribes(q)
       THEN /\ onReconfigured[q] < MaxListeners
            /\ onReconfigured' = [onReconfigured EXCEPT ![q] = @ + 1]
       ELSE onReconfigured' = onReconfigured
    /\ reconfigured' = NoReconfigure
    /\ UNCHANGED <<cmakeManager, reconfiguring>>
    /\ UNCHANGED <<workspaceFolders, runners, watchers, compDBRunners,
                   activeBuildDirectory, artifact, tasks, finished, lastAlone,
                   lastNormalized, lastRun, failures>>

\* Lines 156-159: project p fires onReconfigured, and each listener subscribed on p
\* runs #handleReconfigured up to its await: it reads the project that is active now
\* (line 157); undefined.workspaceFolder throws (line 158) and rejects the handler.
ProjectReconfigured(p) ==
    /\ onReconfigured[p] > 0
    /\ IF activeProject = NoProject
       THEN /\ reconfiguring' = reconfiguring
            /\ reconfigured' = [called |-> FALSE, signal |-> p, wasActive |-> NoProject,
                                copy |-> onReconfigured[p], outcome |-> "rejected"]
       ELSE /\ Len(reconfiguring) + onReconfigured[p] <= MaxReconfiguring
            /\ reconfiguring' = reconfiguring \o
                   [k \in 1..onReconfigured[p] |->
                       [signal |-> p, activeProject |-> activeProject, copy |-> k]]
            /\ reconfigured' = NoReconfigure
    /\ UNCHANGED <<activeProject, cmakeManager, onReconfigured>>
    /\ UNCHANGED <<workspaceFolders, runners, watchers, compDBRunners,
                   activeBuildDirectory, artifact, tasks, finished, lastAlone,
                   lastNormalized, lastRun, failures>>

\* Lines 159-160: binaryDir resolves for the k-th suspended handler, which calls
\* workspaceManager.runCompDB with the folder and the binary directory of the project
\* it read at line 157; the call's rejection rejects the handler.
BinaryDirResolves(k) ==
    /\ k \in 1..Len(reconfiguring)
    /\ LET h == reconfiguring[k]
           workspaceFolder == WorkspaceFolderOf(h.activeProject)
           binaryDir == BinaryDirOf(h.activeProject)
       IN /\ ManagerRunCompDB(workspaceFolder, binaryDir)
          /\ reconfigured' = [called |-> TRUE, signal |-> h.signal,
                              wasActive |-> h.activeProject, copy |-> h.copy,
                              outcome |-> PromiseAll(ForEachReturn(
                                              Forwarded(compDBRunners, workspaceFolder)))]
    /\ reconfiguring' = [j \in 1..(Len(reconfiguring) - 1) |->
                             IF j < k THEN reconfiguring[j] ELSE reconfiguring[j + 1]]
    /\ UNCHANGED <<activeProject, cmakeManager, onReconfigured>>

\* --------------------------------------------------------------------- Next
Responses == Texts \cup {ToolFailure}

\* The watcher events and the steps of the handlers they start, with the tool
\* answering from responses, the commands, the read and the probe failing as faults
\* says, the write failing as writeFaults says, and at most room handlers in flight.
Reconciliation(responses, faults, writeFaults, room) ==
    \/ \E r \in 1..Len(runners), n \in BuildNames :
           Cardinality(Busy(tasks)) < room /\ WatcherDidCreate(r, n)
    \/ \E r \in 1..Len(runners), n \in BuildNames :
           Cardinality(Busy(tasks)) < room /\ WatcherDidChange(r, n)
    \/ \E r \in 1..Len(runners), n \in BuildNames : WatcherDidDelete(r, n)
    \/ \E i \in Slots, reject \in faults : LookupReturns(i, reject)
    \/ \E i \in Slots, response \in responses : NormalizerReturns(i, response)
    \/ \E i \in Slots, ioFault \in faults : ReadFileReturns(i, ioFault)
    \/ \E i \in Slots, ioFault \in faults : StatReturns(i, ioFault)
    \/ \E i \in Slots, ioFault \in writeFaults : WriteFileOpens(i, ioFault)
    \/ \E i \in Slots, ioFault \in writeFaults : WriteFileReturns(i, ioFault)
    \/ \E i \in Slots, reject \in faults : RestartReturns(i, reject)

\* The workspace events and the calls of the manager, which its one caller (line 160)
\* makes with a project's folder and that project's binary directory.
Workspace ==
    \/ \E removed \in Lists(Folders), added \in Lists(Folders) :
           DidChangeWorkspaceFolders(removed, added)
    \/ \E f \in Folders, n \in BuildNames :
           ManagerRunCompDB(f, BuildDir(f, n)) /\ UNCHANGED cmakeVars

\* What cmake.buildDirectory can answer while projA is the only folder: projA's build
\* directory, or none.
OwnOrNoDirectory == {BuildDir("projA", n) : n \in BuildNames} \cup {NoDirectory}

\* One workspace folder, projA, with every answer of the tool and of the file system.
Init ==
    /\ Activated({<<"projA">>}, OwnOrNoDirectory, {"projA"})
    /\ AwaitingApi({NoProject})

Next ==
    \/ Reconciliation(Responses, BOOLEAN, BOOLEAN, MaxTasks)
    \/ \E d \in OwnOrNoDirectory : ActiveBuildDirectoryChanges(d)

Spec == Init /\ [][Next]_vars

\* One handler at a time on projA, and every operation a handler awaits (the lookup
\* command, the tool's process, the file operations, the restart command) settles in
\* the end: the event loop resumes a handler whose awaited promise has settled.
Settles ==
    \/ \E i \in Slots, reject \in BOOLEAN : LookupReturns(i, reject)
    \/ \E i \in Slots, response \in Responses : NormalizerReturns(i, response)
    \/ \E i \in Slots, ioFault \in BOOLEAN : ReadFileReturns(i, ioFault)
    \/ \E i \in Slots, ioFault \in BOOLEAN : StatReturns(i, ioFault)
    \/ \E i \in Slots, ioFault \in BOOLEAN : WriteFileOpens(i, ioFault)
    \/ \E i \in Slots, ioFault \in BOOLEAN : WriteFileReturns(i, ioFault)
    \/ \E i \in Slots, reject \in BOOLEAN : RestartReturns(i, reject)

NextLive ==
    \/ Reconciliation(Responses, BOOLEAN, BOOLEAN, 1)
    \/ \E d \in OwnOrNoDirectory : ActiveBuildDirectoryChanges(d)

SpecLive == Init /\ [][NextLive]_vars /\ WF_vars(Settles)

\* Both folders open at first, folders leaving and joining, and the manager's calls;
\* one handler at a time, the tool answers one text or fails, the write can fail, and
\* the commands, the read and the probe do not.
InitWorkspace ==
    /\ Activated({<<"projA", "projB">>}, BuildDirs \cup {NoDirectory}, {})
    /\ AwaitingApi({NoProject})

NextWorkspace ==
    \/ Reconciliation({CompactOne, ToolFailure}, {FALSE}, BOOLEAN, 1)
    \/ \E d \in BuildDirs \cup {NoDirectory} : ActiveBuildDirectoryChanges(d)
    \/ Workspace

SpecWorkspace == InitWorkspace /\ [][NextWorkspace]_vars

\* Both folders open and the bridge constructed with projA's project active; then the
\* active project and the active build directory change, folders leave and join, and
\* the watchers' events are handled one handler at a time, with a tool that answers
\* one text and a write that can fail.
InitFrame ==
    /\ Activated({<<"projA", "projB">>}, BuildDirs, {})
    /\ Listening("projA")

NextFrame ==
    \/ Reconciliation({CompactOne}, {FALSE}, BOOLEAN, 1)
    \/ \E d \in BuildDirs : ActiveBuildDirectoryChanges(d)
    \/ \E removed \in Lists(Folders), added \in Lists(Folders) :
           DidChangeWorkspaceFolders(removed, added)
    \/ \E q \in Projects : ActiveProjectChanged(q)

SpecFrame == InitFrame /\ [][NextFrame]_vars

\* The bridge to the build-system integration: both folders open, any project or none
\* active when the API arrives, and then the construction of the CMakeManager, the
\* changes of the active project and the reconfigurations of the projects.
InitCMake ==
    /\ Activated({<<"projA", "projB">>}, {NoDirectory}, {})
    /\ AwaitingApi(Projects \cup {NoProject})

NextCMake ==
    \/ ConstructCMakeManager
    \/ \E q \in Projects \cup {NoProject} : ActiveProjectChanged(q)
    \/ \E p \in Projects : ProjectReconfigured(p)
    \/ \E k \in 1..MaxReconfiguring : BinaryDirResolves(k)

SpecCMake == InitCMake /\ [][NextCMake]_vars

\* ------------------------------------------------------------------ claims
\* The invocations in flight, and the one that ended in the last step.
InFlightRecords == {tasks[i] : i \in Busy(tasks)}
Ended == IF finished.pc = "done" THEN {finished} ELSE {}
Records == InFlightRecords \cup Ended

\* Slot i's writeFile opens its target, or fails to, in this step.
WriteOpening(i) == tasks[i].pc = "write" /\ tasks'[i].pc # "write"

\* Slot i's writeFile settles in this step.
WriteSettles(i) == tasks[i].pc = "writing" /\ tasks'[i].pc # "writing"

\* Slot i's writeFile settles in this step, and has written.
Writes(i) ==
    /\ tasks[i].pc = "writing"
    /\ IF tasks'[i].pc = "idle"
       THEN finished'.pc = "done" /\ finished'.writes = tasks[i].writes + 1
       ELSE tasks'[i].pc = "restart"

ParsedEqual(a, b) == JSONParse(a).ok /\ JSONParse(b).ok /\ JSONParse(a).value = JSONParse(b).value

\* C1 (as stated): whatever the interleaving, a folder's artifact is absent or is
\* structurally equal to the most recent successful normalizer output of the build
\* directory that was the active one when the artifact was last written: every step
\* that changes the artifact leaves it so.
C1_ArtifactIsLatestOfActiveDirectory ==
    [][\A f \in Folders :
          artifact'[f] # artifact[f] =>
              \/ artifact'[f] = Absent
              \/ /\ activeBuildDirectory \in BuildDirs
                 /\ lastNormalized[activeBuildDirectory].ok
                 /\ JSONParse(artifact'[f]).ok
                 /\ JSONParse(artifact'[f]).value
                        = lastNormalized[activeBuildDirectory].value]_vars

\* C2 (as stated): a reconciliation, none of whose file operations failed, issues the
\* restart only if the artifact did not exist immediately before its write.
C2_RestartOnlyAfterCreatingWrite ==
    \A t \in Records :
        t.restarts > 0 /\ t.readResult # "fault" /\ t.probeResult # "fault"
            => ~t.existedAtWrite

\* C2 (amended): a reconciliation issues the restart only after its write, at most
\* once, and only if its existence probe, made before that write, did not find the
\* artifact; the artifact may have been created by another reconciliation in between.
C2_RestartOnlyAfterProbeFoundNothing ==
    \A t \in Records :
        t.restarts > 0 =>
            /\ t.restarts = 1
            /\ t.writes = 1
            /\ t.probes = 1
            /\ t.probeResult \in {"absent", "fault"}

\* C2 witness: a restart issued after a write that overwrote an artifact which a
\* concurrent reconciliation had created after the probe.
C2_Witness ==
    \E t \in Ended :
        t.restarts = 1 /\ t.probeResult = "absent" /\ t.existedAtWrite /\ ~t.solo

\* C3: a reconciliation that runs alone, right after a reconciliation of the same
\* folder that ran alone and was fulfilled, with a normalizer output structurally equal
\* to that one's and a read that does not fail, reads the artifact as equal and neither
\* writes nor restarts: the two runs make at most one write, the first one's.
C3_SecondRunIsNoOp ==
    \A t \in Ended :
        /\ t.solo /\ t.prev.valid
        /\ t.reads > 0 /\ t.readResult # "fault"
        /\ ParsedEqual(t.prev.text, t.newCompilerCommandsText)
        => /\ t.readResult = "equal"
           /\ t.outcome = "fulfilled"
           /\ t.writes = 0 /\ t.restarts = 0 /\ t.probes = 0
           /\ t.prev.writes + t.writes <= 1

\* C3 witness: the second of two runs with the same output has ended, and the first
\* had made the one write.
C3_Witness ==
    \E t \in Ended :
        /\ t.solo /\ t.prev.valid /\ t.prev.writes = 1
        /\ t.prev.text = t.newCompilerCommandsText
        /\ t.readResult = "equal" /\ t.writes = 0

\* C4: a reconciliation that runs alone, gets a well-formed normalizer output, finds
\* no artifact and whose write does not fail, writes the artifact and issues exactly
\* one restart; it ends fulfilled unless the restart command rejects.
C4_FirstWriteRestarts ==
    \A t \in Ended :
        t.solo /\ t.readResult = "absent" /\ t.writeResult # "fault"
            => /\ t.writes = 1
               /\ t.restarts = 1
               /\ artifact[FolderOf(t)] = t.toolOutput
               /\ t.restartResult # "rejected" => t.outcome = "fulfilled"

C4_Witness ==
    \E t \in Ended : t.solo /\ t.readResult = "absent" /\ t.writes = 1 /\ t.restarts = 1

\* C5: a reconciliation that reads an artifact whose content differs structurally from
\* its normalizer output, and whose probe and write do not fail, overwrites the
\* artifact and issues no restart.
C5_OverwriteDoesNotRestart ==
    \A t \in Ended :
        t.readResult = "differs" /\ t.probeResult # "fault" /\ t.writeResult # "fault"
            => /\ t.outcome = "fulfilled"
               /\ t.writes = 1
               /\ t.existedAtWrite
               /\ t.restarts = 0
               /\ (t.solo => artifact[FolderOf(t)] = t.toolOutput)

C5_Witness ==
    \E t \in Ended :
        /\ t.readResult = "differs" /\ t.probeResult = "exists"
        /\ t.writes = 1 /\ t.restarts = 0
        /\ artifact[FolderOf(t)] = t.newCompilerCommandsText

\* C6: a handler whose uri's directory is not the build directory its lookup returned
\* invokes no normalizer, reads and writes nothing and issues no restart.
C6_FilteredEventDoesNothing ==
    \A t \in Records :
        t.matched = "no"
            => /\ t.pc = "done" /\ t.outcome = "fulfilled"
               /\ t.invocations = 0
               /\ t.reads = 0 /\ t.probes = 0 /\ t.writes = 0
               /\ t.restarts = 0

C6_Witness == \E t \in Ended : t.matched = "no" /\ t.invocations = 0

\* C7: a reconciliation whose normalizer invocation fails reads nothing, probes
\* nothing, writes nothing and issues no restart.
C7_NormalizerFailureIsInert ==
    \A t \in Records :
        t.toolOutput = ToolFailure
            => /\ t.pc = "done"
               /\ t.reads = 0 /\ t.probes = 0 /\ t.writes = 0
               /\ t.restarts = 0

C7_Witness == \E t \in Ended : t.toolOutput = ToolFailure /\ t.invocations = 1

\* C8 (as stated): a reconciliation whose normalizer invocation fails ends in a
\* normal, non-error outcome.
C8_NormalizerFailureIsSwallowed ==
    \A t \in Ended : t.toolOutput = ToolFailure => t.outcome = "fulfilled"

\* C9 (as stated): a handler entered by a watcher event after its runner has left the
\* manager's collection starts no reconciliation and writes no artifact.
C9_RemovedFolderIsQuiet ==
    \A t \in Records : t.dropped => t.invocations = 0 /\ t.writes = 0

\* C10 (as stated): runCompDB(excluded, dir) calls runCompDB on exactly the registered
\* runners of the other folders, and completes without error.
C10_RunSynchronizationForwardsAndCompletes ==
    lastRun.called =>
        /\ lastRun.forwarded =
               {compDBRunners[k] : k \in
                   {k \in 1..Len(compDBRunners) :
                       runners[compDBRunners[k]].workspaceFolder # lastRun.excluded}}
        /\ lastRun.outcome # "rejected"

\* C11 (as stated): after runCompDB(folder, binaryDir), every runner the call was
\* forwarded to has a reconciliation in flight that invoked the normalizer on binaryDir
\* without a lookup of the active build directory.
C11_ForwardedRunNormalizesSuppliedDirectory ==
    lastRun.called =>
        \A r \in lastRun.forwarded :
            \E t \in InFlightRecords :
                /\ t.runner = r
                /\ t.matched = "n/a"
                /\ t.invocations = 1
                /\ Dirname(t.sourceUri.path) = lastRun.buildDirectory

\* The folders of the runners in the manager's collection, in order.
RunnerFolders == [k \in 1..Len(compDBRunners) |-> runners[compDBRunners[k]].workspaceFolder]

\* C12: after construction and after every folder event, the manager's collection
\* holds one runner for each open workspace folder, no two for one folder, and none
\* for a folder that is not open.
C12_OneRunnerPerOpenFolder ==
    /\ Range(RunnerFolders) = Range(workspaceFolders)
    /\ \A j, k \in 1..Len(compDBRunners) : j # k => RunnerFolders[j] # RunnerFolders[k]

\* C12 witness: a folder has left and a folder has joined: a runner constructed by a
\* folder event is in the collection and a runner constructed earlier is not.
C12_Witness ==
    /\ \E k \in 1..Len(compDBRunners) : compDBRunners[k] > 2
    /\ \E r \in 1..Len(runners) : r \notin Range(compDBRunners)
    /\ Len(compDBRunners) = Len(workspaceFolders)

\* C13: reconciliations of one folder are not serialized: a reconciliation that a
\* later-triggered reconciliation of its folder has overtaken, by completing its write
\* first, is not held back. Unless its own read finds the artifact structurally equal
\* to its output, it goes on to probe and to write, whatever the other has written.
C13_OvertakenReconciliationStillWrites ==
    \A t \in Records :
        t.overtakenBy # NoText /\ t.reads = 1 /\ t.readResult # "equal"
            => /\ t.pc \in {"stat", "write", "writing", "restart", "done"}
               /\ t.pc = "done" => t.writeResult # "none"

\* C13 witness: R1 was triggered before R2, R2's write completed first, and R1's
\* write completed after it: both have ended and the artifact holds R1's own,
\* structurally different, output.
C13_Witness ==
    \E t \in Ended :
        /\ t.overtakenBy # NoText
        /\ t.readResult = "differs"
        /\ t.writes = 1
        /\ ~ParsedEqual(t.overtakenBy, t.newCompilerCommandsText)
        /\ artifact[FolderOf(t)] = t.newCompilerCommandsText
        /\ Busy(tasks) = {}

\* C14: a reconciliation whose read of the artifact fails, or reads text that is not
\* JSON, goes on to probe and write; one whose probe fails takes the artifact as
\* missing, starts the write and, once it has written, issues the restart. Neither
\* failure rejects the reconciliation: it ends fulfilled unless the write or the
\* restart command itself fails.
C14_ReadOrProbeFailureIsAbsence ==
    \A t \in Records :
        /\ t.readResult \in {"fault", "unparsable"}
               => /\ t.pc \in {"stat", "write", "writing", "restart", "done"}
                  /\ t.pc = "done" => t.writeResult # "none"
                  /\ t.pc = "done" /\ t.writeResult # "fault" => t.writes = 1
        /\ t.probeResult = "fault"
               => /\ ~t.targetAlreadyExists
                  /\ t.pc \in {"write", "writing", "restart", "done"}
                  /\ t.pc = "done" /\ t.writeResult # "fault" =>
                         t.writes = 1 /\ t.restarts = 1
        /\ /\ t.pc = "done"
           /\ t.readResult \in {"fault", "unparsable"} \/ t.probeResult = "fault"
           /\ t.writeResult # "fault" /\ t.restartResult # "rejected"
           => t.outcome = "fulfilled"

\* C14 witness: a reconciliation read an existing artifact that is not JSON, its
\* probe of that artifact failed, and it has ended after its write and its restart.
C14_Witness ==
    \E t \in Ended :
        /\ t.readResult = "unparsable" /\ t.probeResult = "fault"
        /\ t.existedAtWrite
        /\ t.writes = 1 /\ t.restarts = 1 /\ t.outcome = "fulfilled"

\* C15 (as stated): every runCompDB call the bridge makes answers a reconfiguration
\* signal of the project that was the active one when it fired, and a signal is
\* answered by one call only.
C15_OnlyActiveProjectReconfigures ==
    reconfigured.called =>
        /\ reconfigured.signal = reconfigured.wasActive
        /\ reconfigured.copy = 1

\* C16 (as stated): the construction of the bridge does not fail, whatever the active
\* project is or is not, and a constructed bridge has a listener on the active project.
C16_StartsUnboundAndBindsOnFirstChange ==
    /\ cmakeManager # "threw"
    /\ cmakeManager # "none" /\ activeProject # NoProject
           => cmakeManager = "listening" /\ onReconfigured[activeProject] >= 1

\* C17: a handler whose uri's directory is the build directory its lookup returned
\* invokes the normalizer on that directory; and when, with no other handler in flight,
\* the normalizer's well-formed output differs structurally from the artifact, the
\* reconciliation ends, and unless its write failed it ends with the artifact holding
\* that output (fulfilled, unless the restart command rejects).
C17_MatchingEventPublishes ==
    /\ [](\A t \in Records :
             t.matched = "yes" =>
                 /\ t.invocations = 1
                 /\ t.pc = "done" /\ t.solo /\ t.toolOutput \in WellFormedTexts
                        /\ t.readResult # "equal" /\ t.writeResult # "fault"
                        => /\ t.writes = 1
                           /\ artifact[FolderOf(t)] = t.toolOutput
                           /\ t.restartResult # "rejected" => t.outcome = "fulfilled")
    /\ (\E i \in Busy(tasks) :
            /\ tasks[i].pc = "read"
            /\ tasks[i].matched = "yes"
            /\ ~ParsedEqual(artifact[FolderOf(tasks[i])], tasks[i].newCompilerCommandsText))
           ~> (\E t \in Ended :
                  /\ t.matched = "yes"
                  /\ \/ t.writeResult = "fault"
                     \/ t.writes = 1 /\ artifact[FolderOf(t)] = t.toolOutput)

\* C17 witness: a matching event's reconciliation, alone in flight, read an artifact
\* that differed from its output and has ended with its output in the artifact.
C17_Witness ==
    \E t \in Ended :
        /\ t.matched = "yes" /\ t.solo
        /\ t.readResult = "differs"
        /\ t.outcome = "fulfilled"
        /\ artifact[FolderOf(t)] = t.toolOutput

\* C18: a folder's artifact changes only in the steps of the write (the opening of
\* the target, the writing of the text) of a reconciliation of that folder's own
\* runner. Every other step (a delete event, a filtered event, a folder event, a change
\* of the active directory or of the active project, any other step of a handler)
\* leaves every artifact as it is, and no step but the one in which a write settles,
\* having written, starts a restart.
C18_ArtifactChangesOnlyByOwnWrite ==
    [][/\ (\A i \in Slots : ~WriteOpening(i) /\ ~WriteSettles(i)) => artifact' = artifact
       /\ (\A i \in Slots : ~Writes(i)) =>
              \A i \in Slots : tasks'[i].pc = "restart" => tasks[i].pc = "restart"
       /\ \A i \in Slots :
              WriteOpening(i) \/ WriteSettles(i) =>
                  /\ tasks[i].invocations = 1
                  /\ \A f \in Folders \ {runners[tasks[i].runner].workspaceFolder} :
                         artifact'[f] = artifact[f]]_vars

\* C18 witness: a folder's artifact was written, the folder then left the workspace
\* and the active project changed to the other folder's, whose listener the bridge
\* subscribed, while the other folder's artifact is still missing.
C18_Witness ==
    \E f, g \in Folders :
        /\ f # g
        /\ artifact[f] \in WellFormedTexts
        /\ f \notin Range(workspaceFolders)
        /\ activeProject = "projB" /\ onReconfigured["projB"] >= 1
        /\ artifact[g] = Absent

\* C19 (as stated): after a delete event for a path, delivered as a uri of its own with
\* that path, no candidate of the runner has the path.
C19_DeleteRemovesCandidate ==
    [][\A r \in 1..Len(runners), n \in BuildNames :
          WatcherDidDelete(r, n) =>
              \A k \in 1..Len(runners'[r].compileCommandsSourceCandidates) :
                  runners'[r].compileCommandsSourceCandidates[k].path # WatchedPath(r, n)]_vars

====
